---- MODULE Spec2Model ----
(***************************************************************************)
(* Model of the zella turntable controller: the "spinner" sketch and the   *)
(* earlier "teensySine" sketch.  Both generate two sine waves 90 degrees   *)
(* apart from a lookup table stepped by an IntervalTimer interrupt, while  *)
(* loop() retargets the timer period from the control inputs.              *)
(*                                                                         *)
(* Fixed point: frequencies are in milli-Hz, rpm values in milli-rpm, the  *)
(* step angle in tenths of a degree, periods in nanoseconds.               *)
(***************************************************************************)
EXTENDS Integers, Sequences, FiniteSets, TLC

\* ---------------------------------------------------------------- settings
GEAR_RATIO == 7342
STEP_ANGLE == 75
RPM_TOGGLE_LEFT == 33333
RPM_TOGGLE_RIGHT == 45000
MIN_SINE_FREQ == 10000
MAX_SINE_FREQ == 75000
STEPPER_AMP_RES == 64
SAMPLES_PER_CYCLE == 600
ADC_RESOLUTION == 13
DAC_RESOLUTION == 12

\* ------------------------------------------------------------------ bounds
\* largest magnitude the encoder count is allowed to accumulate to
MaxEnc == 120

\* counts added by one burst of encoder interrupts
EncDeltas == {-60, 60}

\* raw slider readings offered to analogRead
Readings == {0, 1, 64, 4096, 8191}

PinLevels == {"LOW", "HIGH"}

Sketches == {"spinner", "teensySine"}

VARIABLES
  sketch,                 \* which of the two sketches is running
  pc,                     \* position of the main thread (setup / loop)
  useEncoder,             \* int flag: encoder controls the frequency
  encoderHasBeenPressed,  \* debounce flag
  encoder,                \* accumulated encoder count
  freqLeft, freqRight,    \* preset frequencies
  sineFrequency,
  interruptMicroseconds,
  newFreq,                \* loop()'s local candidate
  vFreq, stepperRPM,      \* teensySine globals
  waveIndexA, waveIndexB,
  dacRead,                \* table indices used by the last sample()
  timerArmed,             \* periods started on the timer and not ended
  timerPeriod,            \* period of the last timer.begin
  wire,                   \* bytes of the last transmission to the amp
  oled,                   \* rpm on the display (hundredths)
  log,                    \* side effects of the current loop() iteration
  sinceWrite,             \* encoder counts arrived since the last encoder.write
  prevRaw, prevLog,       \* reading and effects of the previous iteration
  tableBuilt,             \* createSineTable() has filled sineTable
  swSeen,                 \* encoder switch level seen by the last iteration
  probe                   \* arguments and results of a function under test

vars == <<sketch, pc, useEncoder, encoderHasBeenPressed, encoder, freqLeft,
          freqRight, sineFrequency, interruptMicroseconds, newFreq, vFreq,
          stepperRPM, waveIndexA, waveIndexB, dacRead, timerArmed,
          timerPeriod, wire, oled, log, sinceWrite, prevRaw, prevLog,
          tableBuilt, swSeen, probe>>

\* ----------------------------------------------------------- pure functions
\* variant: the division by 4 is applied twice
getSineFrequencySixteenth(stepperFrequency) ==
  ((((3600 \div STEP_ANGLE) * stepperFrequency) \div 60)) \div 16

getSineFrequency(stepperFrequency) ==
  ((((3600 \div STEP_ANGLE) * stepperFrequency) \div 60)) \div 4

\* variant: half a second instead of a second in the numerator
getInterruptMicrosecondsHalf(f) ==
  ((500000000 \div SAMPLES_PER_CYCLE) * 1000) \div f

getInterruptMicroseconds(f) ==
  ((1000000000 \div SAMPLES_PER_CYCLE) * 1000) \div f

\* platter rpm shown on the display, rounded to two decimals
platterRPM(f) ==
  (((((4 * 60 * STEP_ANGLE * f) \div 3600) * 1000) \div GEAR_RATIO) + 5) \div 10

\* float -> int8_t conversion: truncation toward zero
ToInt8(num, den) ==
  IF num >= 0 THEN num \div den ELSE -((-num) \div den)

\* variant: the ratio is inverted
gainCodeInverse(f) == ToInt8((STEPPER_AMP_RES - 1) * MAX_SINE_FREQ, f)

\* variant: scales by the resolution instead of the top code
gainCodeFullScale(f) == ToInt8(STEPPER_AMP_RES * f, MAX_SINE_FREQ)

gainCode(f) == ToInt8((STEPPER_AMP_RES - 1) * f, MAX_SINE_FREQ)

\* Wire.write(int) sends the low byte
WireByte(g) == g % 256

\* variant: the upper bound is not enforced
ClampLowOnly(f) == IF f < MIN_SINE_FREQ THEN MIN_SINE_FREQ ELSE f

\* the clamp of loop()
Clamp(f) ==
  IF f < MIN_SINE_FREQ THEN MIN_SINE_FREQ
  ELSE IF f > MAX_SINE_FREQ THEN MAX_SINE_FREQ
  ELSE f

\* variant: the cascade runs on every iteration
AlwaysUpdate(candidate, current) == TRUE

\* the test guarding the update cascade of loop()
NeedsUpdate(candidate, current) == candidate # current

\* !useEncoder on an int
Not(x) == IF x = 0 THEN 1 ELSE 0

adcBitRange == 2 ^ ADC_RESOLUTION

RECURSIVE ILog2(_)
ILog2(v) == IF v < 2 THEN 0 ELSE 1 + ILog2(v \div 2)

\* n fractional bits of log2(m / 4096), m in [4096, 8192)
RECURSIVE Log2Frac(_, _)
Log2Frac(m, n) ==
  IF n = 0 THEN 0
  ELSE LET sq == (m * m) \div 4096
       IN IF sq >= 8192 THEN 2 ^ (n - 1) + Log2Frac(sq \div 2, n - 1)
          ELSE Log2Frac(sq, n - 1)

\* -log10(v / adcBitRange) in thousandths, 1 <= v < adcBitRange
NegLog10(v) ==
  LET k == ILog2(v)
      m == v * 2 ^ (12 - k)
      l256 == (ADC_RESOLUTION - k) * 256 - Log2Frac(m, 8)
  IN (l256 * 30103) \div 25600

\* 500.0 * 1.0 / (1.0 - log10(vFreq / adcBitRange)), milli-rpm
sliderRPM(v) == 500000000 \div (1000 + NegLog10(v))

\* ------------------------------------------------------------ the sine table
\* sin() in fixed point: values are scaled by SinScale
SinScale == 2 ^ 14

\* PI scaled by SinScale
PiScaled == (31416 * SinScale) \div 10000

FixMul(a, b) == (a * b) \div SinScale

\* kernels on [0, pi/4], as the library uses after range reduction
SinKernel(x) ==
  LET x2 == FixMul(x, x)
      x3 == FixMul(x2, x)
      x5 == FixMul(x3, x2)
      x7 == FixMul(x5, x2)
  IN x - (x3 \div 6) + (x5 \div 120) - (x7 \div 5040)

CosKernel(x) ==
  LET x2 == FixMul(x, x)
      x4 == FixMul(x2, x2)
      x6 == FixMul(x4, x2)
      x8 == FixMul(x4, x4)
  IN SinScale - (x2 \div 2) + (x4 \div 24) - (x6 \div 720) + (x8 \div 40320)

\* the angle ((2.0*PI) / SAMPLES_PER_CYCLE) * j, scaled
Angle(j) == (2 * PiScaled * j) \div SAMPLES_PER_CYCLE

\* sin of the angle of step j within the first quarter cycle
SinQuarter(j) ==
  IF 8 * j <= SAMPLES_PER_CYCLE
    THEN SinKernel(Angle(j))
    ELSE CosKernel(Angle((SAMPLES_PER_CYCLE \div 4) - j))

\* sin(((2.0*PI) / SAMPLES_PER_CYCLE) * i), scaled, for i in [0, N)
SinStep(i) ==
  LET h == SAMPLES_PER_CYCLE \div 2
      j == i % h
      q == IF 2 * j <= h THEN SinQuarter(j) ELSE SinQuarter(h - j)
  IN IF i < h THEN q ELSE -q

dacBitRange == (2 ^ DAC_RESOLUTION) - 1

\* variant: the sample is rounded to nearest instead of truncated
SampleRounded(s) ==
  ((SinScale + s) * dacBitRange + SinScale) \div (2 * SinScale)

\* variant: the sine is not lifted above zero before scaling
SampleUnshifted(s) ==
  IF s >= 0 THEN (s * dacBitRange) \div (2 * SinScale) ELSE 0

\* (uint16_t) (((1 + sin) * dacBitRange) / 2): the cast truncates
Sample(s) == ((SinScale + s) * dacBitRange) \div (2 * SinScale)

\* the table after createSineTable(), indexed from 0
createSineTable == [i \in 0..(SAMPLES_PER_CYCLE - 1) |-> Sample(SinStep(i))]

\* the global array: zero-initialised until createSineTable() has run
sineTable ==
  IF tableBuilt THEN createSineTable
  ELSE [i \in 0..(SAMPLES_PER_CYCLE - 1) |-> 0]

NoProbe == [fn |-> "none", in1 |-> 0, in2 |-> 0, out1 |-> 0, out2 |-> 0]

\* ------------------------------------------------------------------- Init
\* the globals as their initialisers leave them
Boot ==
  /\ sketch \in Sketches
  /\ pc = "setup"
  /\ useEncoder = 0
  /\ encoderHasBeenPressed = FALSE
  /\ encoder = 0
  /\ freqLeft = 0
  /\ freqRight = 0
  /\ stepperRPM = IF sketch = "teensySine" THEN 250000 ELSE 0
  /\ sineFrequency = IF sketch = "teensySine"
                       THEN getSineFrequency(250000) ELSE 0
  /\ interruptMicroseconds =
       IF sketch = "teensySine"
         THEN getInterruptMicroseconds(getSineFrequency(250000)) ELSE 0
  /\ newFreq = 0
  /\ vFreq = 0
  /\ waveIndexA = SAMPLES_PER_CYCLE \div 4
  /\ waveIndexB = 0
  /\ dacRead = <<>>
  /\ timerArmed = 0
  /\ timerPeriod = 0
  /\ wire = <<>>
  /\ oled = 0
  /\ log = <<>>
  /\ sinceWrite = 0
  /\ prevRaw = -1
  /\ prevLog = <<>>
  /\ tableBuilt = FALSE
  /\ swSeen = "none"

Init == Boot /\ probe = NoProbe

\* ------------------------------------------------------------ the interrupt
WrapIndex(i) == IF i > SAMPLES_PER_CYCLE THEN 0 ELSE i

sample ==
  /\ timerArmed > 0
  /\ waveIndexA' = WrapIndex(waveIndexA + 1)
  /\ waveIndexB' = WrapIndex(waveIndexB + 1)
  /\ dacRead' = <<waveIndexA', waveIndexB'>>
  /\ UNCHANGED <<probe, tableBuilt, swSeen>>
  /\ UNCHANGED <<sketch, pc, useEncoder, encoderHasBeenPressed, encoder,
                 freqLeft, freqRight, sineFrequency, interruptMicroseconds,
                 newFreq, vFreq, stepperRPM, timerArmed, timerPeriod, wire,
                 oled, log, sinceWrite, prevRaw, prevLog>>

\* the Encoder library's pin interrupts
EncoderTurn ==
  /\ sketch = "spinner"
  /\ \E d \in EncDeltas :
       /\ encoder + d \in -MaxEnc..MaxEnc
       /\ encoder' = encoder + d
       /\ sinceWrite' = sinceWrite + d
  /\ UNCHANGED <<probe, tableBuilt, swSeen>>
  /\ UNCHANGED <<sketch, pc, useEncoder, encoderHasBeenPressed, freqLeft,
                 freqRight, sineFrequency, interruptMicroseconds, newFreq,
                 vFreq, stepperRPM, waveIndexA, waveIndexB, dacRead,
                 timerArmed, timerPeriod, wire, oled, log, prevRaw, prevLog>>

\* ------------------------------------------------------------------ spinner
setup ==
  /\ sketch = "spinner"
  /\ pc = "setup"
  /\ \E toggle \in PinLevels :
       LET l == getSineFrequency((RPM_TOGGLE_LEFT * GEAR_RATIO) \div 1000)
           r == getSineFrequency((RPM_TOGGLE_RIGHT * GEAR_RATIO) \div 1000)
           f == IF toggle = "LOW" THEN l ELSE r
       IN /\ tableBuilt' = TRUE
          /\ encoder' = 0
          /\ sinceWrite' = 0
          /\ freqLeft' = l
          /\ freqRight' = r
          /\ sineFrequency' = f
          /\ interruptMicroseconds' = getInterruptMicroseconds(f)
          /\ wire' = <<WireByte(gainCode(f))>>
          /\ oled' = platterRPM(f)
          /\ timerArmed' = timerArmed + 1
          /\ timerPeriod' = getInterruptMicroseconds(f)
          /\ log' = <<"setGain", "oledDisplayRPM", "timer.begin">>
  /\ pc' = "loop"
  /\ UNCHANGED <<probe, swSeen>>
  /\ UNCHANGED <<sketch, useEncoder, encoderHasBeenPressed, newFreq, vFreq,
                 stepperRPM, waveIndexA, waveIndexB, dacRead, prevRaw,
                 prevLog>>

\* variant: the debounce flag is not consulted
TogglePressedAlways(pressed, sw) == sw = "LOW"

\* the test of line 142
TogglePressed(pressed, sw) == ~pressed /\ sw = "LOW"

\* lines 139-161: debounce, then the candidate of this iteration
LoopPoll ==
  /\ sketch = "spinner"
  /\ pc = "loop"
  /\ log' = <<>>
  /\ \E sw1 \in PinLevels, sw2 \in PinLevels, toggle \in PinLevels :
       IF TogglePressed(encoderHasBeenPressed, sw1)
         THEN /\ swSeen' = sw1
              /\ encoderHasBeenPressed' = TRUE
              /\ useEncoder' = Not(useEncoder)
              /\ encoder' = 0
              /\ sinceWrite' = 0
              /\ pc' = "loop"
              /\ UNCHANGED newFreq
         ELSE /\ swSeen' = IF encoderHasBeenPressed THEN sw2 ELSE sw1
              /\ encoderHasBeenPressed' =
                   IF sw2 = "HIGH" THEN FALSE ELSE encoderHasBeenPressed
              /\ UNCHANGED <<useEncoder, encoder, sinceWrite>>
              /\ IF useEncoder # 0
                   THEN /\ newFreq' = sineFrequency + (encoder * 1000) \div 4
                        /\ pc' = "encWrite"
                   ELSE /\ newFreq' =
                             IF toggle = "LOW" THEN freqLeft ELSE freqRight
                        /\ pc' = "clamp"
  /\ UNCHANGED <<probe, tableBuilt>>
  /\ UNCHANGED <<sketch, freqLeft, freqRight, sineFrequency,
                 interruptMicroseconds, vFreq, stepperRPM, waveIndexA,
                 waveIndexB, dacRead, timerArmed, timerPeriod, wire, oled,
                 prevRaw, prevLog>>

\* variant: the encoder is not reset after the read
LoopEncKeep ==
  /\ sketch = "spinner"
  /\ pc = "encWrite"
  /\ sinceWrite' = 0
  /\ pc' = "clamp"
  /\ UNCHANGED <<probe, tableBuilt, swSeen>>
  /\ UNCHANGED <<sketch, useEncoder, encoderHasBeenPressed, encoder, freqLeft,
                 freqRight, sineFrequency, interruptMicroseconds, newFreq,
                 vFreq, stepperRPM, waveIndexA, waveIndexB, dacRead,
                 timerArmed, timerPeriod, wire, oled, log, prevRaw, prevLog>>

\* line 155
LoopEncWrite ==
  /\ sketch = "spinner"
  /\ pc = "encWrite"
  /\ encoder' = 0
  /\ sinceWrite' = 0
  /\ pc' = "clamp"
  /\ UNCHANGED <<probe, tableBuilt, swSeen>>
  /\ UNCHANGED <<sketch, useEncoder, encoderHasBeenPressed, freqLeft,
                 freqRight, sineFrequency, interruptMicroseconds, newFreq,
                 vFreq, stepperRPM, waveIndexA, waveIndexB, dacRead,
                 timerArmed, timerPeriod, wire, oled, log, prevRaw, prevLog>>

\* lines 163-176: clamp, compare, and the first half of the cascade
LoopUpdate ==
  /\ sketch = "spinner"
  /\ pc = "clamp"
  /\ newFreq' = Clamp(newFreq)
  /\ IF NeedsUpdate(Clamp(newFreq), sineFrequency)
       THEN /\ sineFrequency' = Clamp(newFreq)
            /\ interruptMicroseconds' = getInterruptMicroseconds(Clamp(newFreq))
            /\ wire' = <<WireByte(gainCode(Clamp(newFreq)))>>
            /\ oled' = platterRPM(Clamp(newFreq))
            /\ log' = log \o <<"setGain", "oledDisplayRPM">>
            /\ pc' = "timerEnd"
       ELSE /\ pc' = "loop"
            /\ UNCHANGED <<sineFrequency, interruptMicroseconds, wire, oled,
                           log>>
  /\ UNCHANGED <<probe, tableBuilt, swSeen>>
  /\ UNCHANGED <<sketch, useEncoder, encoderHasBeenPressed, encoder, freqLeft,
                 freqRight, vFreq, stepperRPM, waveIndexA, waveIndexB,
                 dacRead, timerArmed, timerPeriod, sinceWrite, prevRaw,
                 prevLog>>

\* variant: the running period is not stopped before the restart
LoopTimerKeep ==
  /\ sketch = "spinner"
  /\ pc = "timerEnd"
  /\ pc' = "timerBegin"
  /\ UNCHANGED <<probe, tableBuilt, swSeen>>
  /\ UNCHANGED <<sketch, useEncoder, encoderHasBeenPressed, encoder, freqLeft,
                 freqRight, sineFrequency, interruptMicroseconds, newFreq,
                 vFreq, stepperRPM, waveIndexA, waveIndexB, dacRead,
                 timerArmed, timerPeriod, wire, oled, log, sinceWrite,
                 prevRaw, prevLog>>

\* line 177
LoopTimerEnd ==
  /\ sketch = "spinner"
  /\ pc = "timerEnd"
  /\ timerArmed' = 0
  /\ log' = Append(log, "timer.end")
  /\ pc' = "timerBegin"
  /\ UNCHANGED <<probe, tableBuilt, swSeen>>
  /\ UNCHANGED <<sketch, useEncoder, encoderHasBeenPressed, encoder, freqLeft,
                 freqRight, sineFrequency, interruptMicroseconds, newFreq,
                 vFreq, stepperRPM, waveIndexA, waveIndexB, dacRead,
                 timerPeriod, wire, oled, sinceWrite, prevRaw, prevLog>>

\* variant: the restart also rewinds the phase
LoopTimerBeginRewind ==
  /\ sketch = "spinner"
  /\ pc = "timerBegin"
  /\ timerArmed' = timerArmed + 1
  /\ timerPeriod' = interruptMicroseconds
  /\ log' = Append(log, "timer.begin")
  /\ waveIndexA' = SAMPLES_PER_CYCLE \div 4
  /\ waveIndexB' = 0
  /\ pc' = "loop"
  /\ UNCHANGED <<probe, tableBuilt, swSeen>>
  /\ UNCHANGED <<sketch, useEncoder, encoderHasBeenPressed, encoder, freqLeft,
                 freqRight, sineFrequency, interruptMicroseconds, newFreq,
                 vFreq, stepperRPM, dacRead, wire, oled, sinceWrite, prevRaw,
                 prevLog>>

\* line 178
LoopTimerBegin ==
  /\ sketch = "spinner"
  /\ pc = "timerBegin"
  /\ timerArmed' = timerArmed + 1
  /\ timerPeriod' = interruptMicroseconds
  /\ log' = Append(log, "timer.begin")
  /\ pc' = "loop"
  /\ UNCHANGED <<probe, tableBuilt, swSeen>>
  /\ UNCHANGED <<sketch, useEncoder, encoderHasBeenPressed, encoder, freqLeft,
                 freqRight, sineFrequency, interruptMicroseconds, newFreq,
                 vFreq, stepperRPM, waveIndexA, waveIndexB, dacRead, wire,
                 oled, sinceWrite, prevRaw, prevLog>>

\* --------------------------------------------------------------- teensySine
useSlider == TRUE

SineSetup ==
  /\ sketch = "teensySine"
  /\ pc = "setup"
  /\ tableBuilt' = TRUE
  /\ timerArmed' = timerArmed + 1
  /\ timerPeriod' = interruptMicroseconds
  /\ log' = <<"timer.begin">>
  /\ pc' = "loop"
  /\ UNCHANGED <<probe, swSeen>>
  /\ UNCHANGED <<sketch, useEncoder, encoderHasBeenPressed, encoder, freqLeft,
                 freqRight, sineFrequency, interruptMicroseconds, newFreq,
                 vFreq, stepperRPM, waveIndexA, waveIndexB, dacRead, wire,
                 oled, sinceWrite, prevRaw, prevLog>>

\* lines 66-78: read the slider and derive the frequency
SineLoop ==
  /\ sketch = "teensySine"
  /\ pc = "loop"
  /\ useSlider
  /\ prevLog' = log
  /\ prevRaw' = IF log = <<"timer.begin">> THEN -1 ELSE vFreq
  /\ \E v \in Readings :
       /\ vFreq' = v
       /\ IF v = 0
            THEN /\ stepperRPM' = 0
                 /\ log' = <<>>
                 /\ pc' = "loop"
                 /\ UNCHANGED <<sineFrequency, interruptMicroseconds>>
            ELSE /\ stepperRPM' = sliderRPM(v)
                 /\ sineFrequency' = getSineFrequency(sliderRPM(v))
                 /\ interruptMicroseconds' =
                      getInterruptMicroseconds(getSineFrequency(sliderRPM(v)))
                 /\ log' = <<"log10">>
                 /\ pc' = "timerEnd"
  /\ UNCHANGED <<probe, tableBuilt, swSeen>>
  /\ UNCHANGED <<sketch, useEncoder, encoderHasBeenPressed, encoder, freqLeft,
                 freqRight, newFreq, waveIndexA, waveIndexB, dacRead,
                 timerArmed, timerPeriod, wire, oled, sinceWrite>>

\* line 79
SineTimerEnd ==
  /\ sketch = "teensySine"
  /\ pc = "timerEnd"
  /\ timerArmed' = 0
  /\ log' = Append(log, "timer.end")
  /\ pc' = "timerBegin"
  /\ UNCHANGED <<probe, tableBuilt, swSeen>>
  /\ UNCHANGED <<sketch, useEncoder, encoderHasBeenPressed, encoder, freqLeft,
                 freqRight, sineFrequency, interruptMicroseconds, newFreq,
                 vFreq, stepperRPM, waveIndexA, waveIndexB, dacRead,
                 timerPeriod, wire, oled, sinceWrite, prevRaw, prevLog>>

\* line 80
SineTimerBegin ==
  /\ sketch = "teensySine"
  /\ pc = "timerBegin"
  /\ timerArmed' = timerArmed + 1
  /\ timerPeriod' = interruptMicroseconds
  /\ log' = Append(log, "timer.begin")
  /\ pc' = "loop"
  /\ UNCHANGED <<probe, tableBuilt, swSeen>>
  /\ UNCHANGED <<sketch, useEncoder, encoderHasBeenPressed, encoder, freqLeft,
                 freqRight, sineFrequency, interruptMicroseconds, newFreq,
                 vFreq, stepperRPM, waveIndexA, waveIndexB, dacRead, wire,
                 oled, sinceWrite, prevRaw, prevLog>>

\* -------------------------------------------------------------------- Next
Next ==
  \/ sample
  \/ EncoderTurn
  \/ setup
  \/ LoopPoll
  \/ LoopEncWrite
  \/ LoopUpdate
  \/ LoopTimerEnd
  \/ LoopTimerBegin
  \/ SineSetup
  \/ SineLoop
  \/ SineTimerEnd
  \/ SineTimerBegin

Spec == Init /\ [][Next]_vars

\* ------------------------------------------- the slider sketch, with fairness
\* The timer fires once its period has run out without a restart, and loop()
\* is called again and again: both are weakly fair.
InitSine == Init /\ sketch = "teensySine"

SineMain == SineSetup \/ SineLoop \/ SineTimerEnd \/ SineTimerBegin

NextSine ==
  \/ sample
  \/ SineSetup
  \/ SineLoop
  \/ SineTimerEnd
  \/ SineTimerBegin

FairSine ==
  InitSine /\ [][NextSine]_vars /\ WF_vars(sample) /\ WF_vars(SineMain)

\* ------------------------------------------------ the pure functions alone
\* frequencies on both sides of every step of the gain code
ProbeFreqs ==
  {f \in UNION {{(k * MAX_SINE_FREQ) \div (STEPPER_AMP_RES - 1),
                 (k * MAX_SINE_FREQ) \div (STEPPER_AMP_RES - 1) + 1}
                  : k \in 0..(STEPPER_AMP_RES - 1)} :
     f >= MIN_SINE_FREQ /\ f <= MAX_SINE_FREQ}

InitPure ==
  /\ Boot
  /\ sketch = "spinner"
  /\ \/ probe \in [fn : {"setGain"}, in1 : ProbeFreqs, in2 : ProbeFreqs,
                    out1 : {0}, out2 : {0}]
     \/ \E i \in 0..(SAMPLES_PER_CYCLE - 1) :
          probe = [fn |-> "createSineTable", in1 |-> i,
                   in2 |-> (SAMPLES_PER_CYCLE - i) % SAMPLES_PER_CYCLE,
                   out1 |-> 0, out2 |-> 0]

\* setGain applied to both frequencies of the probe
ApplySetGain ==
  /\ probe.fn = "setGain"
  /\ probe' = [probe EXCEPT !.fn = "setGain.done",
                            !.out1 = gainCode(probe.in1),
                            !.out2 = gainCode(probe.in2)]
  /\ UNCHANGED <<sketch, pc, useEncoder, encoderHasBeenPressed, encoder,
                 freqLeft, freqRight, sineFrequency, interruptMicroseconds,
                 newFreq, vFreq, stepperRPM, waveIndexA, waveIndexB, dacRead,
                 timerArmed, timerPeriod, wire, oled, log, sinceWrite,
                 prevRaw, prevLog, tableBuilt, swSeen>>

\* createSineTable run, then the two entries of the probe read back
ApplyCreateSineTable ==
  /\ probe.fn = "createSineTable"
  /\ tableBuilt' = TRUE
  /\ probe' = [probe EXCEPT !.fn = "createSineTable.done",
                            !.out1 = createSineTable[probe.in1],
                            !.out2 = createSineTable[probe.in2]]
  /\ UNCHANGED <<sketch, pc, useEncoder, encoderHasBeenPressed, encoder,
                 freqLeft, freqRight, sineFrequency, interruptMicroseconds,
                 newFreq, vFreq, stepperRPM, waveIndexA, waveIndexB, dacRead,
                 timerArmed, timerPeriod, wire, oled, log, sinceWrite,
                 prevRaw, prevLog, swSeen>>

NextPure == ApplySetGain \/ ApplyCreateSineTable

SpecPure == InitPure /\ [][NextPure]_vars

TypeOK ==
  /\ sketch \in Sketches
  /\ pc \in {"setup", "loop", "encWrite", "clamp", "timerEnd", "timerBegin"}
  /\ useEncoder \in {0, 1}
  /\ encoder \in -MaxEnc..MaxEnc
  /\ waveIndexA \in 0..SAMPLES_PER_CYCLE
  /\ waveIndexB \in 0..SAMPLES_PER_CYCLE
  /\ timerArmed \in 0..1

\* ------------------------------------------------------------------ helpers
Events(l) == {l[i] : i \in DOMAIN l}

Reconfigs(l) == Cardinality({i \in DOMAIN l : l[i] = "timer.begin"})

SetupLog == <<"setGain", "oledDisplayRPM", "timer.begin">>

\* ------------------------------------------------------------------- claims

\* C1: every index sample() uses to read sineTable lies in
\* [0, SAMPLES_PER_CYCLE).
C1_IndexInRange ==
  \A i \in DOMAIN dacRead : dacRead[i] \in 0..(SAMPLES_PER_CYCLE - 1)

\* C2: after every tick, (waveIndexA - waveIndexB) mod N = N/4.
C2_QuarterCycleLead ==
  dacRead # <<>> =>
    (waveIndexA - waveIndexB) % SAMPLES_PER_CYCLE = SAMPLES_PER_CYCLE \div 4

\* C3: in the spinner sketch, at the end of setup() and of every loop()
\* iteration sineFrequency lies in [MIN_SINE_FREQ, MAX_SINE_FREQ], and the
\* period handed to timer.begin is positive.
C3_FrequencyInRange ==
  (sketch = "spinner" /\ pc = "loop") =>
    /\ sineFrequency >= MIN_SINE_FREQ
    /\ sineFrequency <= MAX_SINE_FREQ
    /\ interruptMicroseconds > 0
    /\ timerPeriod > 0

\* an encoder-mode iteration has ended with the frequency held at the maximum
C3_Witness ==
  /\ sketch = "spinner"
  /\ pc = "loop"
  /\ useEncoder # 0
  /\ sineFrequency = MAX_SINE_FREQ
  /\ "timer.begin" \in Events(log)
  /\ log # SetupLog

\* C4: a spinner loop() iteration whose clamped candidate equals the current
\* sineFrequency changes neither sineFrequency nor interruptMicroseconds and
\* performs no timer.end/timer.begin, no gain write and no display update.
C4_UnchangedIsNoOp ==
  [][(/\ sketch = "spinner"
      /\ pc = "clamp"
      /\ pc' # "clamp"
      /\ (IF newFreq < MIN_SINE_FREQ THEN MIN_SINE_FREQ
          ELSE IF newFreq > MAX_SINE_FREQ THEN MAX_SINE_FREQ
          ELSE newFreq) = sineFrequency)
     => /\ pc' = "loop"
        /\ log' = <<>>
        /\ UNCHANGED <<sineFrequency, interruptMicroseconds, timerArmed,
                       timerPeriod, wire, oled>>]_vars

\* a full iteration (no mode toggle) has ended without any side effect
C4_Witness ==
  /\ sketch = "spinner"
  /\ pc = "loop"
  /\ log = <<>>
  /\ ~encoderHasBeenPressed
  /\ newFreq = sineFrequency

\* C5: in the slider sketch, two consecutive iterations that observe the
\* same raw reading reconfigure the timer at most once in total.
C5_SameReadingOneReconfigure ==
  (sketch = "teensySine" /\ pc = "loop" /\ prevRaw = vFreq) =>
    Reconfigs(prevLog) + Reconfigs(log) <= 1

\* C6 (as claimed): when an iteration changes sineFrequency the timer is
\* reconfigured first, then the gain is written, then the display updated.
C6_TimerThenGainThenDisplay ==
  (sketch = "spinner" /\ log # SetupLog) =>
    \A i \in DOMAIN log :
      log[i] = "setGain" => \E j \in 1..(i - 1) : log[j] = "timer.begin"

\* C6 (amended): when an iteration changes sineFrequency the gain is written
\* first, then the display is updated, then the timer is stopped and
\* restarted with the new period.
C6_GainDisplayThenTimer ==
  sketch = "spinner" =>
    /\ pc = "timerEnd" => log = <<"setGain", "oledDisplayRPM">>
    /\ pc = "timerBegin" => log = <<"setGain", "oledDisplayRPM", "timer.end">>
    /\ (pc = "loop" /\ log # <<>> /\ log # SetupLog) =>
         /\ log = <<"setGain", "oledDisplayRPM", "timer.end", "timer.begin">>
         /\ timerPeriod = interruptMicroseconds
         /\ sineFrequency = newFreq

\* an iteration that changed the frequency has run its whole cascade
C6_Witness ==
  /\ sketch = "spinner"
  /\ pc = "loop"
  /\ log = <<"setGain", "oledDisplayRPM", "timer.end", "timer.begin">>

\* C7: only the main thread touches the timer, a reconfiguration is
\* timer.end() followed by timer.begin(), sample() leaves the timer alone,
\* no tick fires between the end and the begin, and never more than one
\* period is armed.
C7_ReconfigureQuiesces ==
  [][/\ (timerArmed' # timerArmed \/ timerPeriod' # timerPeriod) =>
          /\ pc' # pc
          /\ UNCHANGED <<waveIndexA, waveIndexB, dacRead>>
     /\ (timerArmed # 0 /\ timerArmed' = 0) => pc' = "timerBegin"
     /\ timerArmed' > timerArmed =>
          /\ pc \in {"setup", "timerBegin"}
          /\ timerArmed = 0
     /\ pc = "timerBegin" => UNCHANGED <<waveIndexA, waveIndexB, dacRead>>
     /\ timerArmed' <= 1]_vars

\* the timer is stopped in the middle of a reconfiguration after ticks ran
C7_Witness ==
  /\ pc = "timerBegin"
  /\ timerArmed = 0
  /\ dacRead # <<>>

\* C8: in encoder mode the count read by an iteration goes into that
\* iteration's candidate, the very next step of loop() resets the encoder
\* to 0, and the encoder never holds a count older than its last reset.
C8_DeltaConsumedOnce ==
  [][sketch = "spinner" =>
       /\ (pc = "loop" /\ pc' = "encWrite") =>
            newFreq' = sineFrequency + encoder * 250
       /\ (pc = "encWrite" /\ pc' # pc) =>
            /\ pc' = "clamp"
            /\ encoder' = 0
            /\ newFreq' = newFreq
       /\ encoder' = sinceWrite']_vars

\* a non-zero count was read into the candidate and the encoder is back at 0
C8_Witness ==
  /\ sketch = "spinner"
  /\ pc = "clamp"
  /\ useEncoder # 0
  /\ newFreq # sineFrequency
  /\ encoder = 0

\* C9: a slider iteration that reads 0 does not evaluate the logarithm and
\* ends with the timer stopped or running at the minimum frequency.
C9_ZeroReadingStopsOrMin ==
  (sketch = "teensySine" /\ pc = "loop" /\ vFreq = 0 /\ log # <<"timer.begin">>)
    => /\ "log10" \notin Events(log)
       /\ \/ timerArmed = 0
          \/ /\ sineFrequency = MIN_SINE_FREQ
             /\ timerPeriod = getInterruptMicroseconds(MIN_SINE_FREQ)

\* C10: every gain code sent to the amplifier is in [0, STEPPER_AMP_RES - 1].
C10_GainCodeInRange ==
  \A i \in DOMAIN wire : wire[i] \in 0..(STEPPER_AMP_RES - 1)

\* the top gain code has been written by a loop() iteration
C10_Witness ==
  /\ sketch = "spinner"
  /\ wire = <<STEPPER_AMP_RES - 1>>
  /\ "timer.end" \in Events(log)

\* C11: the gain code is monotonic non-decreasing in the frequency.
C11_GainMonotonic ==
  (probe.fn = "setGain.done" /\ probe.in1 <= probe.in2) =>
    probe.out1 <= probe.out2

\* two frequencies on the two sides of a step of the gain code
C11_Witness ==
  /\ probe.fn = "setGain.done"
  /\ probe.in2 = probe.in1 + 1
  /\ probe.out2 = probe.out1 + 1

\* C12: only sample() writes waveIndexA and waveIndexB, both on every tick;
\* no step of setup() or loop() changes them, a reconfiguration included.
C12_IndicesOwnedBySampler ==
  [][/\ (waveIndexA' # waveIndexA \/ waveIndexB' # waveIndexB) =>
          /\ timerArmed > 0
          /\ waveIndexA' \in {waveIndexA + 1, 0}
          /\ waveIndexB' \in {waveIndexB + 1, 0}
          /\ waveIndexA' # waveIndexA
          /\ waveIndexB' # waveIndexB
          /\ UNCHANGED <<pc, useEncoder, sineFrequency,
                         interruptMicroseconds, timerArmed, timerPeriod>>
     /\ (pc' # pc \/ useEncoder' # useEncoder \/ timerArmed' # timerArmed) =>
          UNCHANGED <<waveIndexA, waveIndexB>>
     /\ dacRead' # dacRead =>
          (waveIndexA' # waveIndexA /\ waveIndexB' # waveIndexB)]_vars

\* a reconfiguration has completed while the indices are away from their
\* initial values
C12_Witness ==
  /\ sketch = "spinner"
  /\ pc = "loop"
  /\ log = <<"setGain", "oledDisplayRPM", "timer.end", "timer.begin">>
  /\ waveIndexB > 0
  /\ waveIndexA # SAMPLES_PER_CYCLE \div 4

\* the scaled value (1 + sin) * dacBitRange of table entry i, before the
\* division by 2
Doubled(i) == (SinScale + SinStep(i)) * dacBitRange

\* C13 (as claimed): every entry is the formula's value rounded to nearest,
\* and the entries 0 and N/2 are 2048.
C13_RoundedToNearest ==
  probe.fn = "createSineTable.done" =>
    /\ 2 * SinScale * probe.out1 - SinScale <= Doubled(probe.in1)
    /\ Doubled(probe.in1) <= 2 * SinScale * probe.out1 + SinScale
    /\ probe.in1 \in {0, SAMPLES_PER_CYCLE \div 2} => probe.out1 = 2048

\* C13 (amended): every entry is the formula's value truncated toward zero,
\* and the entries 0 and N/2 are 2047.
C13_Truncated ==
  probe.fn = "createSineTable.done" =>
    /\ probe.out1 \in 0..dacBitRange
    /\ 2 * SinScale * probe.out1 <= Doubled(probe.in1)
    /\ Doubled(probe.in1) < 2 * SinScale * (probe.out1 + 1)
    /\ probe.in1 \in {0, SAMPLES_PER_CYCLE \div 2} => probe.out1 = 2047

\* the entry at half a cycle has been computed
C13_Witness ==
  /\ probe.fn = "createSineTable.done"
  /\ tableBuilt
  /\ probe.in1 = SAMPLES_PER_CYCLE \div 2
  /\ probe.out1 = 2047

\* C14 (as claimed): table[i] and table[(N - i) mod N] differ by at most one.
C14_MirrorEqual ==
  probe.fn = "createSineTable.done" =>
    /\ probe.out1 - probe.out2 <= 1
    /\ probe.out2 - probe.out1 <= 1

\* C14 (amended): table[i] + table[(N - i) mod N] is within one unit of
\* 2^R - 1.
C14_MirrorComplement ==
  probe.fn = "createSineTable.done" =>
    /\ probe.out1 + probe.out2 <= dacBitRange + 1
    /\ probe.out1 + probe.out2 >= dacBitRange - 1

\* the crest and the trough, a quarter and three quarters into the cycle
C14_Witness ==
  /\ probe.fn = "createSineTable.done"
  /\ probe.in1 = SAMPLES_PER_CYCLE \div 4
  /\ probe.out1 = dacBitRange
  /\ probe.out2 = 0

\* C15 (as claimed): the left preset is about 12.23 Hz and inside the range.
C15_LeftPresetTwelveHz ==
  (sketch = "spinner" /\ pc # "setup") =>
    /\ freqLeft >= 12220
    /\ freqLeft <= 12240
    /\ freqLeft >= MIN_SINE_FREQ
    /\ freqLeft <= MAX_SINE_FREQ

\* C15 (amended): the left preset is about 48.95 Hz and inside the range, so
\* the clamp leaves it alone.
C15_LeftPresetFortyNineHz ==
  (sketch = "spinner" /\ pc # "setup") =>
    /\ freqLeft >= 48940
    /\ freqLeft <= 48950
    /\ freqLeft >= MIN_SINE_FREQ
    /\ freqLeft <= MAX_SINE_FREQ
    /\ (pc = "loop" /\ newFreq = freqLeft /\ log = <<>>
          /\ ~encoderHasBeenPressed) => sineFrequency = freqLeft

\* a preset iteration has selected the left preset and stored it as it is
C15_Witness ==
  /\ sketch = "spinner"
  /\ pc = "loop"
  /\ useEncoder = 0
  /\ swSeen = "HIGH"
  /\ newFreq = freqLeft
  /\ sineFrequency = freqLeft

\* C16: with a constant control input and a fair timer and loop, sample()
\* runs infinitely often.
C16_SamplerLive ==
  (<>[](vFreq = 4096)) => []<><<sample>>_vars

\* C17: in the spinner sketch, at the end of setup() and of every loop()
\* iteration, the timer is armed with interruptMicroseconds, which is
\* 1e6 / (sineFrequency * SAMPLES_PER_CYCLE).
C17_PeriodMatchesFrequency ==
  (sketch = "spinner" /\ pc = "loop") =>
    /\ timerArmed = 1
    /\ timerPeriod = interruptMicroseconds
    /\ interruptMicroseconds * sineFrequency <= 1666666000
    /\ (interruptMicroseconds + 1) * sineFrequency > 1666666000

\* an iteration has retargeted the timer to the period of the minimum
C17_Witness ==
  /\ sketch = "spinner"
  /\ pc = "loop"
  /\ sineFrequency = MIN_SINE_FREQ
  /\ timerPeriod = 166666
  /\ "timer.begin" \in Events(log)

\* C18: useEncoder is toggled by exactly those iterations that see the
\* encoder switch LOW while the iteration before them did not.
C18_OneTogglePerPress ==
  [][sketch = "spinner" =>
       /\ (/\ pc = "loop"
           /\ \/ pc' # "loop"
              \/ useEncoder' # useEncoder
              \/ encoderHasBeenPressed' # encoderHasBeenPressed
              \/ swSeen' # swSeen)
            => ((useEncoder' # useEncoder) <=>
                  (swSeen' = "LOW" /\ swSeen # "LOW"))
       /\ useEncoder' # useEncoder => (pc = "loop" /\ pc' = "loop")]_vars

\* a later iteration of a press went on in encoder mode without toggling
C18_Witness ==
  /\ sketch = "spinner"
  /\ pc = "encWrite"
  /\ swSeen = "LOW"
  /\ useEncoder = 1

\* C19: encoder.write(0) discards no count: the encoder still holds exactly
\* the count that was read into the candidate.
C19_NoCountLost ==
  [][(sketch = "spinner" /\ pc = "encWrite" /\ pc' = "clamp") =>
       encoder * 250 = newFreq - sineFrequency]_vars

====
